---------------------------- MODULE Spec2Model ----------------------------
(***************************************************************************)
(* A model of WS_UMB.py, the UMB protocol driver for Lufft weather         *)
(* stations: the CRC engine, the two request encoders, the response        *)
(* validation, the value decoding and the three query entry points,        *)
(* driving a serial transport whose other end is a device model.           *)
(*                                                                         *)
(* Bytes are integers 0..255, byte strings are sequences of bytes.  Python *)
(* indexes from 0 and TLA+ from 1: rx_frame[k] of the source is rx[k + 1]  *)
(* here, and Slice(s, a, b) is the source's s[a:b].                        *)
(***************************************************************************)
EXTENDS Integers, Sequences, FiniteSets, TLC

VARIABLES
    pc,               \* where the client is: idle, send, recv, check, returned, raised
    api,              \* the entry point that was called
    receiver_id,      \* argument receiver_id
    command,          \* argument command of send_request / send_request_one_call_multi
    command_version,  \* argument command_version
    payload,          \* argument payload of send_request (bytes)
    channels,         \* argument channels (a sequence of channel numbers)
    i,                \* onlineDataQueryMulti: position of its for loop (1-based)
    tx_frame,         \* the frame last handed to serial.write
    rx_frame,         \* the frame last returned by readFromSerial
    values,           \* values collected so far / returned
    statuses,         \* statuses collected so far / returned
    error,            \* the exception that ended the call, "none" if none
    log,              \* history: the transport calls of this call, in order
    kind,             \* history: what the device did for the last read
    faithful,         \* history: every read so far was a well-formed device reply
    timeout,          \* readFromSerial: argument timeout
    timeout_count,    \* readFromSerial: polls without a byte since the last byte
    data,             \* readFromSerial: the bytes accumulated so far
    arrived,          \* the line: every byte that reached the serial port, in order
    slept             \* history: the time.sleep(0.01) calls of this read

\* the state of a read in progress
reader == <<timeout, timeout_count, data, arrived, slept>>

vars == <<pc, api, receiver_id, command, command_version, payload, channels, i,
          tx_frame, rx_frame, values, statuses, error, log, kind, faithful,
          timeout, timeout_count, data, arrived, slept>>

-----------------------------------------------------------------------------
(* Bounds of the model. *)

\* longest channel list handed to the multi-channel queries
MaxChannels == 2

\* longest payload handed directly to send_request
MaxPayload == 2

\* most bytes the device sends during one read
MaxBytes == 3

-----------------------------------------------------------------------------
(* Python's bytes and integers. *)

Min(a, b) == IF a < b THEN a ELSE b
Max(a, b) == IF a > b THEN a ELSE b

\* a slice bound as Python normalises it: negative counts from the end, clipped
SliceIndex(n, len) == IF n < 0 THEN Max(0, len + n) ELSE Min(n, len)

\* s[a:b]
Slice(s, a, b) == SubSeq(s, SliceIndex(a, Len(s)) + 1, SliceIndex(b, Len(s)))

\* s[:b] and s[a:]
SliceTo(s, b) == SubSeq(s, 1, SliceIndex(b, Len(s)))

\* int(n).to_bytes(1, 'little') and int(n).to_bytes(2, 'little'); Python raises
\* OverflowError when n does not fit
Fits(n, size) == n >= 0 /\ n < (IF size = 1 THEN 256 ELSE 65536)
to_bytes1(n) == <<n % 256>>
to_bytes2(n) == <<n % 256, (n \div 256) % 256>>

\* int.from_bytes(b, byteorder='little') of a slice of at most one byte
from_bytes(b) == IF Len(b) = 0 THEN 0 ELSE b[1]

-----------------------------------------------------------------------------
(* calc_next_crc_byte, calc_crc16. *)

Bit(v, p) == (v \div p) % 2
FlipBit(v, p) == IF Bit(v, p) = 1 THEN v - p ELSE v + p

\* crc_buff ^ x16, where x16 is 0x8408 (bits 3, 10 and 15) or 0x0000
XorX16(crc_buff, x16) ==
    IF x16 = 0 THEN crc_buff
    ELSE FlipBit(FlipBit(FlipBit(crc_buff, 8), 1024), 32768)

\* the body of "for i in range (8)", n iterations left
RECURSIVE crc_bits(_, _, _)
crc_bits(crc_buff, nextbyte, n) ==
    IF n = 0 THEN crc_buff
    ELSE LET x16 == IF (crc_buff % 2) # (nextbyte % 2) THEN 33800 ELSE 0
             shifted == XorX16(crc_buff \div 2, x16)
         IN  IF shifted >= 0
             THEN crc_bits(shifted, nextbyte \div 2, n - 1)
             ELSE shifted

calc_next_crc_byte(crc_buff, nextbyte) == crc_bits(crc_buff, nextbyte, 8)

\* "for byte in data", from position k on
RECURSIVE crc_fold(_, _, _)
crc_fold(crc, bytes, k) ==
    IF k > Len(bytes) THEN crc
    ELSE LET next == calc_next_crc_byte(crc, bytes[k])
         IN  IF next >= 0 THEN crc_fold(next, bytes, k + 1) ELSE next

calc_crc16(bytes) == crc_fold(65535, bytes, 1)

-----------------------------------------------------------------------------
(* The frame markers and addresses both request functions set up. *)

SOH == <<1>>
STX == <<2>>
ETX == <<3>>
EOT == <<4>>
VERSION == <<16>>
TO_CLASS == <<112>>
FROM == to_bytes1(1)
FROM_CLASS == <<240>>

\* tx_frame += self.calc_crc16(tx_frame).to_bytes(2, 'little') + EOT
WithTrailer(frame) == frame \o to_bytes2(calc_crc16(frame)) \o EOT

\* send_request with LEN started at 3, as send_request_one_call_multi starts it
send_request_tx_frame_len3(rid, cmd, ver, pl) ==
    LET LEN == to_bytes1(3 + Len(pl))
    IN  WithTrailer(SOH \o VERSION \o to_bytes1(rid) \o TO_CLASS \o FROM \o FROM_CLASS
                    \o LEN \o STX \o to_bytes1(cmd) \o to_bytes1(ver) \o pl \o ETX)

\* send_request: the transmit frame
send_request_tx_frame(rid, cmd, ver, pl) ==
    LET LEN == to_bytes1(2 + Len(pl))
    IN  WithTrailer(SOH \o VERSION \o to_bytes1(rid) \o TO_CLASS \o FROM \o FROM_CLASS
                    \o LEN \o STX \o to_bytes1(cmd) \o to_bytes1(ver) \o pl \o ETX)

\* send_request raises OverflowError before it writes when a field does not fit
send_request_encodable(rid, cmd, ver, pl) ==
    Fits(rid, 1) /\ Fits(2 + Len(pl), 1) /\ Fits(cmd, 1) /\ Fits(ver, 1)

\* send_request_one_call_multi: FULLPAYLOAD, from channel k on
RECURSIVE channel_bytes(_, _)
channel_bytes(chs, k) ==
    IF k > Len(chs) THEN <<>> ELSE to_bytes2(chs[k]) \o channel_bytes(chs, k + 1)

FULLPAYLOAD(chs) == to_bytes1(Len(chs)) \o channel_bytes(chs, 1)

\* send_request_one_call_multi with LEN started at 2, as send_request starts it
one_call_tx_frame_len2(rid, cmd, ver, chs) ==
    LET LEN == to_bytes1(2 + 2 * Len(chs))
    IN  WithTrailer(SOH \o VERSION \o to_bytes1(rid) \o TO_CLASS \o FROM \o FROM_CLASS
                    \o LEN \o STX \o to_bytes1(cmd) \o to_bytes1(ver)
                    \o FULLPAYLOAD(chs) \o ETX)

\* send_request_one_call_multi: the transmit frame (LEN starts at 3 and counts
\* every channel byte)
one_call_tx_frame(rid, cmd, ver, chs) ==
    LET LEN == to_bytes1(3 + 2 * Len(chs))
    IN  WithTrailer(SOH \o VERSION \o to_bytes1(rid) \o TO_CLASS \o FROM \o FROM_CLASS
                    \o LEN \o STX \o to_bytes1(cmd) \o to_bytes1(ver)
                    \o FULLPAYLOAD(chs) \o ETX)

one_call_encodable(rid, cmd, ver, chs) ==
    /\ Fits(rid, 1) /\ Fits(Len(chs), 1) /\ Fits(3 + 2 * Len(chs), 1)
    /\ Fits(cmd, 1) /\ Fits(ver, 1)
    /\ \A k \in 1..Len(chs) : Fits(chs[k], 2)

-----------------------------------------------------------------------------
(* Python values.  An int n is written hi * 2^32 + val with val a signed 32-bit *)
(* number, so that every value struct.unpack can return has a representation;  *)
(* a float or a double is its IEEE-754 bit pattern, tagged.                     *)

PyInt(n) == [kind |-> "int", hi |-> 0, val |-> n]

\* the low 32 bits of 4 little-endian bytes, read as a signed number
Signed32(b) ==
    b[1] + 256 * b[2] + 65536 * b[3]
      + 16777216 * (IF b[4] >= 128 THEN b[4] - 256 ELSE b[4])

\* struct.unpack(fmt, b)[0]; struct.error when b is shorter than the format
StructError == [kind |-> "struct.error", hi |-> 0, val |-> 0]

unpack(fmt, b) ==
    CASE fmt = "B" -> IF Len(b) # 1 THEN StructError ELSE PyInt(b[1])
      [] fmt = "b" -> IF Len(b) # 1 THEN StructError
                      ELSE PyInt(IF b[1] >= 128 THEN b[1] - 256 ELSE b[1])
      [] fmt = "H" -> IF Len(b) # 2 THEN StructError ELSE PyInt(b[1] + 256 * b[2])
      [] fmt = "h" -> IF Len(b) # 2 THEN StructError
                      ELSE PyInt(b[1] + 256 * (IF b[2] >= 128 THEN b[2] - 256 ELSE b[2]))
      [] fmt = "L" -> IF Len(b) # 4 THEN StructError
                      ELSE [kind |-> "int", hi |-> IF b[4] >= 128 THEN 1 ELSE 0,
                            val |-> Signed32(b)]
      [] fmt = "l" -> IF Len(b) # 4 THEN StructError ELSE PyInt(Signed32(b))
      [] fmt = "f" -> IF Len(b) # 4 THEN StructError
                      ELSE [kind |-> "float", hi |-> 0, val |-> Signed32(b)]
      [] fmt = "d" -> IF Len(b) # 8 THEN StructError
                      ELSE [kind |-> "double", hi |-> Signed32(SubSeq(b, 5, 8)),
                            val |-> Signed32(SubSeq(b, 1, 4))]

-----------------------------------------------------------------------------
(* The response checks of send_request and of send_request_one_call_multi.  *)
(* Each yields the message of the UMBError raised, or "ok".                  *)

ChecksumError == "Checksum test failed"
LengthError == "Length of Payload is not valid"
SOHError == "No Start-of-frame Character"
VersionError == "Wrong Version Number"
DestinationError == "Wrong Destination ID"
SourceError == "Wrong Source ID"
STXError == "Missing STX field"
CommandError == "Wrong Command Number"
CommandVersionError == "Wrong Command Version Number"

\* send_request with the length check moved before the checksum check
send_request_check_length_first(rx, rid, cmd, ver) ==
    LET cs_calculated == to_bytes2(calc_crc16(SliceTo(rx, -3)))
        cs_received == Slice(rx, -3, -1)
        length == from_bytes(Slice(rx, 6, 7))
    IN  IF Slice(rx, 8 + length, 9 + length) # ETX THEN LengthError
        ELSE IF cs_calculated # cs_received THEN ChecksumError
        ELSE IF Slice(rx, 0, 1) # SOH THEN SOHError
        ELSE IF Slice(rx, 1, 2) # VERSION THEN VersionError
        ELSE IF Slice(rx, 2, 4) # FROM \o FROM_CLASS THEN DestinationError
        ELSE IF Slice(rx, 4, 6) # to_bytes1(rid) \o TO_CLASS THEN SourceError
        ELSE IF Slice(rx, 7, 8) # STX THEN STXError
        ELSE IF Slice(rx, 8, 9) # to_bytes1(cmd) THEN CommandError
        ELSE IF Slice(rx, 9, 10) # to_bytes1(ver) THEN CommandVersionError
        ELSE "ok"

\* send_request: from "compare checksum field" to the last field check
send_request_check(rx, rid, cmd, ver) ==
    LET cs_calculated == to_bytes2(calc_crc16(SliceTo(rx, -3)))
        cs_received == Slice(rx, -3, -1)
        length == from_bytes(Slice(rx, 6, 7))
    IN  IF cs_calculated # cs_received THEN ChecksumError
        ELSE IF Slice(rx, 8 + length, 9 + length) # ETX THEN LengthError
        ELSE IF Slice(rx, 0, 1) # SOH THEN SOHError
        ELSE IF Slice(rx, 1, 2) # VERSION THEN VersionError
        ELSE IF Slice(rx, 2, 4) # FROM \o FROM_CLASS THEN DestinationError
        ELSE IF Slice(rx, 4, 6) # to_bytes1(rid) \o TO_CLASS THEN SourceError
        ELSE IF Slice(rx, 7, 8) # STX THEN STXError
        ELSE IF Slice(rx, 8, 9) # to_bytes1(cmd) THEN CommandError
        ELSE IF Slice(rx, 9, 10) # to_bytes1(ver) THEN CommandVersionError
        ELSE "ok"

\* send_request_one_call_multi with the version check moved before the
\* start-of-frame check
one_call_check_version_first(rx, rid, cmd, ver) ==
    LET cs_calculated == to_bytes2(calc_crc16(SliceTo(rx, -3)))
        cs_received == Slice(rx, -3, -1)
        length == from_bytes(Slice(rx, 6, 7))
    IN  IF cs_calculated # cs_received THEN ChecksumError
        ELSE IF Slice(rx, 8 + length, 9 + length) # ETX THEN LengthError
        ELSE IF Slice(rx, 1, 2) # VERSION THEN VersionError
        ELSE IF Slice(rx, 0, 1) # SOH THEN SOHError
        ELSE IF Slice(rx, 2, 4) # FROM \o FROM_CLASS THEN DestinationError
        ELSE IF Slice(rx, 4, 6) # to_bytes1(rid) \o TO_CLASS THEN SourceError
        ELSE IF Slice(rx, 7, 8) # STX THEN STXError
        ELSE IF Slice(rx, 8, 9) # to_bytes1(cmd) THEN CommandError
        ELSE IF Slice(rx, 9, 10) # to_bytes1(ver) THEN CommandVersionError
        ELSE "ok"

\* send_request_one_call_multi: the same checks, written out again there
one_call_check(rx, rid, cmd, ver) ==
    LET cs_calculated == to_bytes2(calc_crc16(SliceTo(rx, -3)))
        cs_received == Slice(rx, -3, -1)
        length == from_bytes(Slice(rx, 6, 7))
    IN  IF cs_calculated # cs_received THEN ChecksumError
        ELSE IF Slice(rx, 8 + length, 9 + length) # ETX THEN LengthError
        ELSE IF Slice(rx, 0, 1) # SOH THEN SOHError
        ELSE IF Slice(rx, 1, 2) # VERSION THEN VersionError
        ELSE IF Slice(rx, 2, 4) # FROM \o FROM_CLASS THEN DestinationError
        ELSE IF Slice(rx, 4, 6) # to_bytes1(rid) \o TO_CLASS THEN SourceError
        ELSE IF Slice(rx, 7, 8) # STX THEN STXError
        ELSE IF Slice(rx, 8, 9) # to_bytes1(cmd) THEN CommandError
        ELSE IF Slice(rx, 9, 10) # to_bytes1(ver) THEN CommandVersionError
        ELSE "ok"

-----------------------------------------------------------------------------
(* Value decoding. *)

\* the chain ending in an else branch that reads an unknown type as one byte
decode_value_byte_default(type_of_value, rx, at) ==
    CASE type_of_value = 16 -> unpack("B", Slice(rx, at, at + 1))
      [] type_of_value = 17 -> unpack("b", Slice(rx, at, at + 1))
      [] type_of_value = 18 -> unpack("H", Slice(rx, at, at + 2))
      [] type_of_value = 19 -> unpack("h", Slice(rx, at, at + 2))
      [] type_of_value = 20 -> unpack("L", Slice(rx, at, at + 4))
      [] type_of_value = 21 -> unpack("l", Slice(rx, at, at + 4))
      [] type_of_value = 22 -> unpack("f", Slice(rx, at, at + 4))
      [] type_of_value = 23 -> unpack("d", Slice(rx, at, at + 8))
      [] OTHER -> unpack("B", Slice(rx, at, at + 1))

\* the if/elif chain on type_of_value; value stays 0 when no branch is taken
decode_value(type_of_value, rx, at) ==
    CASE type_of_value = 16 -> unpack("B", Slice(rx, at, at + 1))
      [] type_of_value = 17 -> unpack("b", Slice(rx, at, at + 1))
      [] type_of_value = 18 -> unpack("H", Slice(rx, at, at + 2))
      [] type_of_value = 19 -> unpack("h", Slice(rx, at, at + 2))
      [] type_of_value = 20 -> unpack("L", Slice(rx, at, at + 4))
      [] type_of_value = 21 -> unpack("l", Slice(rx, at, at + 4))
      [] type_of_value = 22 -> unpack("f", Slice(rx, at, at + 4))
      [] type_of_value = 23 -> unpack("d", Slice(rx, at, at + 8))
      [] OTHER -> PyInt(0)

\* send_request reading the value from the offset of the type tag
send_request_decode_value_at_13(rx) ==
    LET status == from_bytes(Slice(rx, 10, 11))
        type_of_value == from_bytes(Slice(rx, 13, 14))
    IN  [value |-> decode_value(type_of_value, rx, 13), status |-> status]

\* send_request: status at 10, type at 13, value from 14
send_request_decode(rx) ==
    LET status == from_bytes(Slice(rx, 10, 11))
        type_of_value == from_bytes(Slice(rx, 13, 14))
    IN  [value |-> decode_value(type_of_value, rx, 14), status |-> status]

\* one pass with both cursors advanced by sub_len only
one_call_record_stride_sub_len(rx, index, parse_index) ==
    LET status == from_bytes(Slice(rx, index - 3, (index + 1) - 3))
        type_of_value == from_bytes(Slice(rx, index, index + 1))
        sub_len == from_bytes(Slice(rx, index - 4, (index + 1) - 4))
    IN  [value |-> decode_value(type_of_value, rx, parse_index),
         status |-> status,
         index |-> index + sub_len,
         parse_index |-> parse_index + sub_len]

\* send_request_one_call_multi: one pass of "for i in range(len(channels))"
one_call_record(rx, index, parse_index) ==
    LET status == from_bytes(Slice(rx, index - 3, (index + 1) - 3))
        type_of_value == from_bytes(Slice(rx, index, index + 1))
        sub_len == from_bytes(Slice(rx, index - 4, (index + 1) - 4))
    IN  [value |-> decode_value(type_of_value, rx, parse_index),
         status |-> status,
         index |-> index + sub_len + 1,
         parse_index |-> parse_index + sub_len + 1]

\* the loop, n passes left; a struct.error ends it
RECURSIVE one_call_loop(_, _, _, _, _, _)
one_call_loop(rx, n, index, parse_index, vals, stats) ==
    IF n = 0 THEN [values |-> vals, statuses |-> stats, error |-> "none"]
    ELSE LET r == one_call_record(rx, index, parse_index)
         IN  IF r.value = StructError
             THEN [values |-> vals, statuses |-> stats, error |-> "struct.error"]
             ELSE one_call_loop(rx, n - 1, r.index, r.parse_index,
                                Append(vals, r.value), Append(stats, r.status))

\* the loop run once per distinct channel
one_call_decode_distinct(rx, chs) ==
    one_call_loop(rx, Cardinality({chs[k] : k \in 1..Len(chs)}), 16, 17, <<>>, <<>>)

\* values, statuses of send_request_one_call_multi: index = 16, parse_index = 17
one_call_decode(rx, chs) == one_call_loop(rx, Len(chs), 16, 17, <<>>, <<>>)

-----------------------------------------------------------------------------
(* The device at the other end of the serial line.  It is not part of the   *)
(* driver: it is modelled by the frame layout the driver reads (a reply is   *)
(* addressed to 0x01/0xF0 from receiver_id/0x70; a single-channel reply      *)
(* carries status, channel, type tag and value from offset 10; a one-call    *)
(* reply carries a status and a count, then one sub-record per channel:      *)
(* sub-length, status, channel, type tag, value).                            *)

\* the channels the device knows and what it holds for each: the status, the
\* type tag, the value bytes and the value those bytes stand for
DeviceChannels == {100, 113, 200, 4630}

DeviceState(ch) ==
    CASE ch = 113  -> [status |-> 0, type |-> 18, bytes |-> <<113, 0>>,
                       value |-> PyInt(113)]
      [] ch = 4630 -> [status |-> 0, type |-> 18, bytes |-> <<22, 18>>,
                       value |-> PyInt(4630)]
      [] ch = 100  -> [status |-> 0, type |-> 22, bytes |-> <<0, 0, 188, 65>>,
                       value |-> [kind |-> "float", hi |-> 0, val |-> 1102839808]]
      [] ch = 200  -> [status |-> 36, type |-> 104, bytes |-> <<49, 0>>,
                       value |-> PyInt(0)]

\* a frame from the device to the driver
DeviceFrame(rid, cmd, ver, body) ==
    WithTrailer(SOH \o VERSION \o FROM \o FROM_CLASS \o to_bytes1(rid) \o TO_CLASS
                \o to_bytes1(2 + Len(body)) \o STX \o <<cmd, ver>> \o body \o ETX)

\* the reply to a single-channel query (command 35)
DeviceReply35(rid, ch) ==
    LET d == DeviceState(ch)
    IN  DeviceFrame(rid, 35, 16, <<d.status>> \o to_bytes2(ch) \o <<d.type>> \o d.bytes)

\* the sub-length a device writes before a sub-record: "umb" counts the status,
\* the channel, the type tag and the value bytes; "width" counts the value bytes
\* only
SubLength(convention, d) ==
    IF convention = "umb" THEN 4 + Len(d.bytes) ELSE Len(d.bytes)

RECURSIVE DeviceSubRecords(_, _, _)
DeviceSubRecords(chs, k, convention) ==
    IF k > Len(chs) THEN <<>>
    ELSE LET d == DeviceState(chs[k])
         IN  <<SubLength(convention, d), d.status>> \o to_bytes2(chs[k])
                \o <<d.type>> \o d.bytes \o DeviceSubRecords(chs, k + 1, convention)

\* the reply to a one-call query (command 47)
DeviceReply47(rid, chs, convention) ==
    DeviceFrame(rid, 47, 16, <<0, Len(chs)>> \o DeviceSubRecords(chs, 1, convention))

\* the request echoed back as a reply: source and destination swapped, the
\* checksum recomputed over the echoed bytes
Echo(tx) ==
    WithTrailer(SubSeq(tx, 1, 2) \o SubSeq(tx, 5, 6) \o SubSeq(tx, 3, 4)
                \o SubSeq(tx, 7, Len(tx) - 3))

\* frame with the byte at 0-based offset at replaced
SetByte(frame, at, b) == [frame EXCEPT ![at + 1] = b]

\* frame with the byte at 0-based offset at changed to another byte
Corrupt(frame, at, delta) == SetByte(frame, at, (frame[at + 1] + delta) % 256)

\* the faults a reply can carry, one per check of the driver, in the order of
\* the checks: 1 checksum, 2 length byte, 3 start of frame, 4 version,
\* 5 destination, 6 source, 7 start of text, 8 command, 9 command version
Faults == 1..9

HeaderFault(frame, f) ==
    CASE f = 2 -> Corrupt(frame, 6, 1)
      [] f = 3 -> Corrupt(frame, 0, 1)
      [] f = 4 -> Corrupt(frame, 1, 1)
      [] f = 5 -> Corrupt(frame, 2, 1)
      [] f = 6 -> Corrupt(frame, 4, 1)
      [] f = 7 -> Corrupt(frame, 7, 1)
      [] f = 8 -> Corrupt(frame, 8, 1)
      [] f = 9 -> Corrupt(frame, 9, 1)
      [] OTHER -> frame

\* a reply with faults f and g: the header faults are in the bytes the device
\* sums, a checksum fault damages the checksum itself
Faulty(frame, f, g) ==
    LET body == HeaderFault(HeaderFault(SubSeq(frame, 1, Len(frame) - 3), f), g)
        sent == WithTrailer(body)
    IN  IF f = 1 \/ g = 1 THEN Corrupt(sent, Len(sent) - 3, 1) ELSE sent

-----------------------------------------------------------------------------
(* What a read can return.  A kind names what the device (or the line) did:  *)
(* "good" a well-formed reply, "width" a well-formed one-call reply whose    *)
(* sub-lengths count the value bytes only, "echo" the request echoed back,   *)
(* "loopback" the request itself, "trailer" a well-formed reply with trailer  *)
(* byte n (0, 1: checksum, 2: end of transmission) changed by m, "trunc" the  *)
(* first n bytes of a well-formed reply whose end-of-body marker is at offset *)
(* m, "faults" a reply with faults n, m.                                      *)

Kind(k, n, m) == [k |-> k, n |-> n, m |-> m]
NoKind == Kind("none", 0, 0)

OneCallApis == {"onlineDataQueryMultiOneCall", "send_request_one_call_multi"}

\* the well-formed reply to the request in flight
GoodReply(convention) ==
    IF api \in OneCallApis
    THEN DeviceReply47(receiver_id, channels, convention)
    ELSE DeviceReply35(receiver_id, channels[i])

\* what the read returns; good is the well-formed reply
Received(kd, good) ==
    CASE kd.k = "good" -> good
      [] kd.k = "width" -> GoodReply("width")
      [] kd.k = "echo" -> Echo(tx_frame)
      [] kd.k = "loopback" -> tx_frame
      [] kd.k = "trailer" -> Corrupt(good, Len(good) - 3 + kd.n, kd.m)
      [] kd.k = "trunc" -> SubSeq(good, 1, kd.n)
      [] kd.k = "faults" -> Faulty(good, kd.n, kd.m)

\* the amounts a damaged trailer byte is changed by
CorruptDeltas == {1, 128}

\* a device that answers, and a line that may damage the trailer of the answer
LineKinds(good) ==
    {Kind("good", 0, 0)}
      \cup (IF api \in OneCallApis /\ channels # <<>> THEN {Kind("width", 0, 0)} ELSE {})
      \cup {Kind("trailer", n, m) : n \in 0..2, m \in CorruptDeltas}

\* a line that may cut the answer short
TruncKinds(good) ==
    {Kind("good", 0, 0)}
      \cup {Kind("trunc", n, 8 + good[7]) : n \in 0..(Len(good) - 1)}

\* a device whose replies carry one or two faults
FaultKinds(good) ==
    {Kind("good", 0, 0)}
      \cup {Kind("faults", fg[1], fg[2]) :
               fg \in {p \in Faults \X Faults : p[1] <= p[2]}}

\* a line that only returns what was sent
EchoKinds(good) == {Kind("echo", 0, 0), Kind("loopback", 0, 0)}

\* what each of the lines modelled can deliver in place of the reply good
Delivers(line, good) ==
    CASE line = "damaging" -> LineKinds(good)
      [] line = "cutting" -> TruncKinds(good)
      [] line = "faulty" -> FaultKinds(good)
      [] line = "echoing" -> EchoKinds(good)

-----------------------------------------------------------------------------
(* The inputs. *)

Receivers == {1, 2}

RECURSIVE SeqsUpTo(_, _)
SeqsUpTo(S, n) ==
    IF n = 0 THEN {<<>>}
    ELSE LET shorter == SeqsUpTo(S, n - 1)
         IN  shorter \cup {Append(q, x) : q \in {t \in shorter : Len(t) = n - 1}, x \in S}

ChannelLists == SeqsUpTo(DeviceChannels, MaxChannels)

\* arguments handed directly to send_request and send_request_one_call_multi
RawReceivers == {1, 2, 256}
RawCommands == {35, 47}
RawVersions == {16, 1}
RawBytes == {0, 113}
RawPayloads == SeqsUpTo(RawBytes, MaxPayload)
ExampleChannelLists == SeqsUpTo({113, 4630}, MaxChannels)

-----------------------------------------------------------------------------
(* The state machine. *)

Init ==
    /\ pc = "idle"
    /\ api = "none"
    /\ receiver_id = 0
    /\ command = 0
    /\ command_version = 0
    /\ payload = <<>>
    /\ channels = <<>>
    /\ i = 0
    /\ tx_frame = <<>>
    /\ rx_frame = <<>>
    /\ values = <<>>
    /\ statuses = <<>>
    /\ error = "none"
    /\ log = <<>>
    /\ kind = NoKind
    /\ faithful = TRUE
    /\ timeout = 0
    /\ timeout_count = 0
    /\ data = <<>>
    /\ arrived = <<>>
    /\ slept = 0

\* a call enters send_request or send_request_one_call_multi
Enter(name, rid, cmd, ver, pl, chs) ==
    /\ pc = "idle"
    /\ pc' = "send"
    /\ api' = name
    /\ receiver_id' = rid
    /\ command' = cmd
    /\ command_version' = ver
    /\ payload' = pl
    /\ channels' = chs
    /\ i' = 1
    /\ UNCHANGED <<tx_frame, rx_frame, values, statuses, error, log, kind, faithful>>
    /\ UNCHANGED reader

\* onlineDataQuery(channel, receiver_id)
onlineDataQuery(channel, rid) ==
    Enter("onlineDataQuery", rid, 35, 16, to_bytes2(channel), <<channel>>)

\* onlineDataQueryMulti(channels, receiver_id): the first pass of its loop, or
\* the return of two empty lists when there is no channel
onlineDataQueryMulti(chs, rid) ==
    IF chs = <<>>
    THEN /\ pc = "idle"
         /\ pc' = "returned"
         /\ api' = "onlineDataQueryMulti"
         /\ receiver_id' = rid
         /\ UNCHANGED <<command, command_version, payload, channels, i, tx_frame,
                        rx_frame, values, statuses, error, log, kind, faithful>>
         /\ UNCHANGED reader
    ELSE Enter("onlineDataQueryMulti", rid, 35, 16, to_bytes2(chs[1]), chs)

\* onlineDataQueryMultiOneCall(channels, receiver_id)
onlineDataQueryMultiOneCall(chs, rid) ==
    Enter("onlineDataQueryMultiOneCall", rid, 47, 16, <<>>, chs)

\* send_request(receiver_id, command, command_version, payload), called directly
send_request(rid, cmd, ver, pl) ==
    Enter("send_request", rid, cmd, ver, pl, <<>>)

\* send_request_one_call_multi(receiver_id, command, command_version, channels),
\* called directly
send_request_one_call_multi(rid, cmd, ver, chs) ==
    Enter("send_request_one_call_multi", rid, cmd, ver, <<>>, chs)

\* both request functions up to self.serial.write(tx_frame): the frame is
\* assembled and written, or to_bytes raises OverflowError and nothing is written
SerialWrite ==
    /\ pc = "send"
    /\ LET encodable ==
               IF api \in OneCallApis
               THEN one_call_encodable(receiver_id, command, command_version, channels)
               ELSE send_request_encodable(receiver_id, command, command_version, payload)
           frame ==
               IF api \in OneCallApis
               THEN one_call_tx_frame(receiver_id, command, command_version, channels)
               ELSE send_request_tx_frame(receiver_id, command, command_version, payload)
       IN  IF encodable
           THEN /\ tx_frame' = frame
                /\ log' = Append(log, <<"write", frame>>)
                /\ pc' = "recv"
                /\ UNCHANGED <<values, statuses, error>>
           ELSE /\ pc' = "raised"
                /\ error' = "OverflowError"
                /\ values' = <<>>
                /\ statuses' = <<>>
                /\ UNCHANGED <<tx_frame, log>>
    /\ UNCHANGED <<api, receiver_id, command, command_version, payload, channels, i,
                   rx_frame, kind, faithful>>
    /\ UNCHANGED reader

\* rx_frame = self.readFromSerial(): the read returns what the line delivers
readFromSerial(line) ==
    /\ pc = "recv"
    /\ LET good == IF api \in {"send_request", "send_request_one_call_multi"}
                   THEN <<>>
                   ELSE GoodReply("umb")
       IN  \E kd \in Delivers(line, good) :
              LET frame == Received(kd, good)
              IN  /\ rx_frame' = frame
                  /\ kind' = kd
                  /\ log' = Append(log, <<"read", frame>>)
                  /\ faithful' = (faithful /\ kd.k = "good")
    /\ pc' = "check"
    /\ UNCHANGED <<api, receiver_id, command, command_version, payload, channels, i,
                   tx_frame, values, statuses, error>>
    /\ UNCHANGED reader

\* a failure answered by sending the request again
Raise_retry(err) ==
    /\ pc' = "send"
    /\ error' = error
    /\ values' = values
    /\ statuses' = statuses
    /\ UNCHANGED <<payload, i>>

\* the call ends with an exception: nothing is returned
Raise(err) ==
    /\ pc' = "raised"
    /\ error' = err
    /\ values' = <<>>
    /\ statuses' = <<>>
    /\ UNCHANGED <<payload, i>>

\* the rest of send_request and of send_request_one_call_multi: the checks, the
\* decoding, and what the caller does with the result (onlineDataQueryMulti
\* appends it and goes on to its next channel)
CheckAndDecode ==
    /\ pc = "check"
    /\ IF api \in OneCallApis
       THEN LET err == one_call_check(rx_frame, receiver_id, command, command_version)
                r == one_call_decode(rx_frame, channels)
            IN  IF err # "ok" THEN Raise(err)
                ELSE IF r.error # "none" THEN Raise(r.error)
                ELSE /\ values' = r.values
                     /\ statuses' = r.statuses
                     /\ pc' = "returned"
                     /\ UNCHANGED <<payload, i, error>>
       ELSE LET err == send_request_check(rx_frame, receiver_id, command, command_version)
                r == send_request_decode(rx_frame)
            IN  IF err # "ok" THEN Raise(err)
                ELSE IF r.value = StructError THEN Raise("struct.error")
                ELSE /\ values' = Append(values, r.value)
                     /\ statuses' = Append(statuses, r.status)
                     /\ error' = error
                     /\ IF api = "onlineDataQueryMulti" /\ i < Len(channels)
                        THEN /\ i' = i + 1
                             /\ payload' = to_bytes2(channels[i + 1])
                             /\ pc' = "send"
                        ELSE /\ pc' = "returned"
                             /\ UNCHANGED <<payload, i>>
    /\ UNCHANGED <<api, receiver_id, command, command_version, channels, tx_frame,
                   rx_frame, log, kind, faithful>>
    /\ UNCHANGED reader

\* the caller is back in control and may call again: nothing is kept between
\* calls
Reset ==
    /\ pc \in {"returned", "raised"}
    /\ pc' = "idle"
    /\ api' = "none"
    /\ receiver_id' = 0
    /\ command' = 0
    /\ command_version' = 0
    /\ payload' = <<>>
    /\ channels' = <<>>
    /\ i' = 0
    /\ tx_frame' = <<>>
    /\ rx_frame' = <<>>
    /\ values' = <<>>
    /\ statuses' = <<>>
    /\ error' = "none"
    /\ log' = <<>>
    /\ kind' = NoKind
    /\ faithful' = TRUE
    /\ timeout' = 0
    /\ timeout_count' = 0
    /\ data' = <<>>
    /\ arrived' = <<>>
    /\ slept' = 0

\* the three queries against a device on a line that may damage its replies
Next ==
    \/ \E ch \in DeviceChannels, rid \in Receivers : onlineDataQuery(ch, rid)
    \/ \E chs \in ChannelLists, rid \in Receivers : onlineDataQueryMulti(chs, rid)
    \/ \E chs \in ChannelLists, rid \in Receivers : onlineDataQueryMultiOneCall(chs, rid)
    \/ SerialWrite
    \/ readFromSerial("damaging")
    \/ CheckAndDecode
    \/ Reset

Spec == Init /\ [][Next]_vars

\* the single-channel and the one-call query on a line that cuts replies short
NextTrunc ==
    \/ \E ch \in DeviceChannels, rid \in Receivers : onlineDataQuery(ch, rid)
    \/ \E chs \in ChannelLists, rid \in Receivers : onlineDataQueryMultiOneCall(chs, rid)
    \/ SerialWrite
    \/ readFromSerial("cutting")
    \/ CheckAndDecode
    \/ Reset

SpecTrunc == Init /\ [][NextTrunc]_vars

\* the single-channel and the one-call query against a device whose replies
\* carry faults
NextFaults ==
    \/ \E ch \in DeviceChannels, rid \in Receivers : onlineDataQuery(ch, rid)
    \/ \E chs \in ExampleChannelLists, rid \in Receivers : onlineDataQueryMultiOneCall(chs, rid)
    \/ SerialWrite
    \/ readFromSerial("faulty")
    \/ CheckAndDecode
    \/ Reset

SpecFaults == Init /\ [][NextFaults]_vars

\* the two request functions called directly, on a line that returns what was
\* sent
NextCodec ==
    \/ \E rid \in RawReceivers, cmd \in RawCommands, ver \in RawVersions,
          pl \in RawPayloads : send_request(rid, cmd, ver, pl)
    \/ \E rid \in RawReceivers, cmd \in RawCommands, ver \in RawVersions,
          chs \in ExampleChannelLists : send_request_one_call_multi(rid, cmd, ver, chs)
    \/ SerialWrite
    \/ readFromSerial("echoing")
    \/ CheckAndDecode
    \/ Reset

SpecCodec == Init /\ [][NextCodec]_vars

-----------------------------------------------------------------------------
(* readFromSerial, one pass of its loop at a time, with a device that sends  *)
(* bytes between the passes.                                                 *)

\* the timeouts a caller configures (timeout=1 is the default; None, which
\* switches the only exit of the loop off, is not among them)
Timeouts == {1, 2}

\* self.serial.inWaiting(): the bytes that arrived and were not read yet
inWaiting == Len(arrived) - Len(data)

\* a byte reaches the serial port
DeviceSends(b) ==
    /\ pc \in {"idle", "reading"}
    /\ Len(arrived) < MaxBytes
    /\ arrived' = Append(arrived, b)
    /\ UNCHANGED <<pc, api, receiver_id, command, command_version, payload, channels,
                   i, tx_frame, rx_frame, values, statuses, error, log, kind, faithful,
                   timeout, timeout_count, data, slept>>

\* readFromSerial(timeout) up to its loop: timeout_count = 0, data = b''
readFromSerial_call(t) ==
    /\ pc = "idle"
    /\ pc' = "reading"
    /\ api' = "readFromSerial"
    /\ timeout' = t
    /\ timeout_count' = 0
    /\ data' = <<>>
    /\ slept' = 0
    /\ UNCHANGED <<receiver_id, command, command_version, payload, channels, i,
                   tx_frame, rx_frame, values, statuses, error, log, kind, faithful,
                   arrived>>

\* one pass of while True: a waiting byte is read and the count starts again,
\* or the count goes up and the loop is left (return data) or sleeps
readFromSerial_poll ==
    /\ pc = "reading"
    /\ IF inWaiting > 0
       THEN /\ data' = Append(data, arrived[Len(data) + 1])
            /\ timeout_count' = 0
            /\ UNCHANGED <<pc, rx_frame, slept>>
       ELSE /\ timeout_count' = timeout_count + 1
            /\ IF timeout_count + 1 >= 10 * timeout
               THEN /\ pc' = "returned"
                    /\ rx_frame' = data
                    /\ UNCHANGED slept
               ELSE /\ slept' = slept + 1
                    /\ UNCHANGED <<pc, rx_frame>>
            /\ UNCHANGED data
    /\ UNCHANGED <<api, receiver_id, command, command_version, payload, channels, i,
                   tx_frame, values, statuses, error, log, kind, faithful,
                   timeout, arrived>>

NextRead ==
    \/ \E t \in Timeouts : readFromSerial_call(t)
    \/ \E b \in RawBytes : DeviceSends(b)
    \/ readFromSerial_poll
    \/ Reset

SpecRead == Init /\ [][NextRead]_vars

\* the loop is not held up for ever between two passes
SpecReadFair == SpecRead /\ WF_vars(readFromSerial_poll)

-----------------------------------------------------------------------------
(* The claims. *)

\* the call has read a reply and is through with it
Checked == pc \in {"send", "returned", "raised"} /\ kind # NoKind

\* the payload a request carries, as the claims state it: the bytes handed to
\* send_request, or the channel count and each channel as two little-endian
\* bytes
ClaimedPayload ==
    IF api \in OneCallApis
    THEN [k \in 1..(1 + 2 * Len(channels)) |->
            IF k = 1 THEN Len(channels)
            ELSE IF k % 2 = 0 THEN channels[k \div 2] % 256
            ELSE channels[k \div 2] \div 256]
    ELSE payload

\* C1: the frame written to the transport is 0x01, 0x10, receiver id, 0x70, 0x01,
\* 0xF0, a length byte of 2 + payload length, 0x02, command, command version, the
\* payload, 0x03, the CRC16 of all that as 2 little-endian bytes, 0x04: the 0x03
\* is at offset 8 + length and the frame is 14 + payload length bytes long
C1_RequestFrameLayout ==
    tx_frame # <<>> =>
        LET pl == ClaimedPayload
            body == <<1, 16, receiver_id, 112, 1, 240, 2 + Len(pl), 2,
                      command, command_version>> \o pl \o <<3>>
            crc == calc_crc16(body)
        IN  /\ tx_frame = body \o <<crc % 256, crc \div 256, 4>>
            /\ tx_frame[8 + tx_frame[7] + 1] = 3
            /\ Len(tx_frame) = 14 + Len(pl)
            /\ log[Len(log) - (IF pc = "recv" THEN 0 ELSE 1)] = <<"write", tx_frame>>

\* C1's case: both request functions have written a frame with a payload
C1_Witness ==
    /\ pc = "recv"
    /\ api = "send_request_one_call_multi"
    /\ channels = <<113, 4630>>
    /\ receiver_id = 2
    /\ tx_frame = <<1, 16, 2, 112, 1, 240, 7, 2, 47, 16, 2, 113, 0, 22, 18, 3,
                    tx_frame[17], tx_frame[18], 4>>

\* C8: the request frame echoed back as a reply (addressed to 0x01 0xF0 from
\* receiver id 0x70, checksum recomputed) passes every response check, and the
\* bytes between the command version and the end-of-body marker are the payload
\* that was supplied
C8_EchoRoundTrip ==
    (Checked /\ kind.k = "echo") =>
        /\ error \in {"none", "struct.error"}
        /\ send_request_check(rx_frame, receiver_id, command, command_version) = "ok"
        /\ SubSeq(rx_frame, 11, 8 + rx_frame[7]) = ClaimedPayload
        /\ rx_frame[8 + rx_frame[7] + 1] = 3

\* C8's case: send_request got its own request echoed and returned
C8_Witness ==
    /\ pc = "returned"
    /\ api = "send_request"
    /\ kind.k = "echo"
    /\ receiver_id = 2
    /\ payload = <<113, 0>>
    /\ SubSeq(rx_frame, 3, 6) = <<1, 240, 2, 112>>

\* C2: a well-formed reply with one trailer byte changed (either checksum byte
\* or the final 0x04) fails the checks with the checksum error
C2_TrailerCorruptionIsChecksumError ==
    (Checked /\ kind.k = "trailer") => (pc = "raised" /\ error = ChecksumError)

\* what the device holds for the k-th requested channel
Held(k) == DeviceState(channels[k])

RecognizedTags == 16..23

\* C4 as stated: no query returns a value for a reply carrying a type tag
\* outside 16..23
C4_UnknownTagRaises ==
    (pc = "returned" /\ faithful) =>
        \A k \in 1..Len(channels) : Held(k).type \in RecognizedTags

\* C4 as amended: a type tag outside 16..23 is no error; the query returns the
\* value 0 for that reply or sub-record, with its status
C4_UnknownTagYieldsZero ==
    /\ (Checked /\ faithful) => pc # "raised"
    /\ (pc = "returned" /\ faithful) =>
          \A k \in 1..Len(channels) :
              Held(k).type \notin RecognizedTags =>
                  /\ values[k] = PyInt(0)
                  /\ statuses[k] = Held(k).status

\* C4's case: a one-call query returned for a channel with an unknown type tag
C4_Witness ==
    /\ pc = "returned"
    /\ faithful
    /\ api = "onlineDataQueryMultiOneCall"
    /\ channels = <<200, 113>>
    /\ rx_frame[17] = 104
    /\ values = <<PyInt(0), PyInt(113)>>
    /\ statuses = <<36, 0>>

\* the k-th entry returned is the value and the status of the k-th channel
EntriesMatchChannels ==
    \A k \in 1..Len(channels) :
        /\ values[k] = Held(k).value
        /\ statuses[k] = Held(k).status

\* C5 as stated: with sub-lengths that count the value bytes (2 for a type-18
\* value), the two-cursor walk returns the value and status of each sub-record
C5_WalkWithWidthSubLengths ==
    (Checked /\ api = "onlineDataQueryMultiOneCall" /\ kind.k = "width") =>
        (pc = "returned" /\ EntriesMatchChannels)

\* C5 as amended: with sub-lengths that count the status, the channel, the type
\* tag and the value bytes (6 for a type-18 value), the two-cursor walk returns
\* the value and status of each sub-record
C5_WalkWithUmbSubLengths ==
    (Checked /\ api = "onlineDataQueryMultiOneCall" /\ kind.k = "good") =>
        (pc = "returned" /\ Len(values) = Len(channels) /\ EntriesMatchChannels)

\* C5's case: channels [113, 4630], two status-0 type-18 sub-records
C5_Witness ==
    /\ pc = "returned"
    /\ api = "onlineDataQueryMultiOneCall"
    /\ kind.k = "good"
    /\ channels = <<113, 4630>>
    /\ SubSeq(rx_frame, 13, 26) = <<6, 0, 113, 0, 18, 113, 0, 6, 0, 22, 18, 18, 22, 18>>
    /\ values = <<PyInt(113), PyInt(4630)>>
    /\ statuses = <<0, 0>>

MultiApis == {"onlineDataQueryMulti", "onlineDataQueryMultiOneCall"}

\* C6: a multi-channel query that returns for N channels returns N values and N
\* statuses, the k-th for the k-th channel, one per occurrence of a channel
C6_OneEntryPerChannel ==
    (pc = "returned" /\ api \in MultiApis) =>
        /\ Len(values) = Len(channels)
        /\ Len(statuses) = Len(channels)
        /\ faithful => EntriesMatchChannels

\* C6's case: a channel asked for twice
C6_Witness ==
    /\ pc = "returned"
    /\ api \in MultiApis
    /\ faithful
    /\ channels = <<113, 113>>
    /\ values = <<PyInt(113), PyInt(113)>>
    /\ statuses = <<0, 0>>

\* what one command-35 round trip per channel returns from the device
Sequentially(chs, rid) ==
    [k \in 1..Len(chs) |-> send_request_decode(DeviceReply35(rid, chs[k]))]

\* what one command-47 round trip returns from the device
InOneCall(chs, rid) == one_call_decode(DeviceReply47(rid, chs, "umb"), chs)

\* C7: for the same channel list and an unchanged device, the sequential query
\* and the one-call query return the same values and the same statuses, in the
\* same order
C7_CrossModeConsistency ==
    (pc = "returned" /\ faithful /\ api \in MultiApis) =>
        LET seq == Sequentially(channels, receiver_id)
            one == InOneCall(channels, receiver_id)
        IN  /\ one.error = "none"
            /\ one.values = [k \in 1..Len(channels) |-> seq[k].value]
            /\ one.statuses = [k \in 1..Len(channels) |-> seq[k].status]
            /\ api = "onlineDataQueryMulti" =>
                  (values = one.values /\ statuses = one.statuses)
            /\ api = "onlineDataQueryMultiOneCall" =>
                  /\ values = [k \in 1..Len(channels) |-> seq[k].value]
                  /\ statuses = [k \in 1..Len(channels) |-> seq[k].status]

\* C7's case: the sequential query returned for channels of different widths
C7_Witness ==
    /\ pc = "returned"
    /\ faithful
    /\ api = "onlineDataQueryMulti"
    /\ channels = <<100, 113>>
    /\ values = InOneCall(<<100, 113>>, receiver_id).values
    /\ values[1].kind = "float"

\* the k-th frame written asks channel ch of the receiver with command 35
IsQueryFor(frame, ch) ==
    /\ Len(frame) = 16
    /\ frame[3] = receiver_id
    /\ frame[9] = 35
    /\ frame[10] = 16
    /\ SubSeq(frame, 11, 12) = <<ch % 256, ch \div 256>>

\* C9: in onlineDataQueryMulti writes and reads alternate, starting with a write;
\* the k-th frame written is the command-35 request for the k-th channel; at most
\* N frames are written; the call ends at the first reply that fails, without
\* writing again
C9_OneRoundTripPerChannel ==
    api = "onlineDataQueryMulti" =>
        /\ \A j \in 1..Len(log) :
              /\ log[j][1] = (IF j % 2 = 1 THEN "write" ELSE "read")
              /\ j % 2 = 1 => IsQueryFor(log[j][2], channels[(j + 1) \div 2])
        /\ Len(log) <= 2 * Len(channels)
        /\ pc = "send" => Len(log) = 2 * (i - 1)
        /\ pc = "recv" => (Len(log) = 2 * i - 1 /\ log[Len(log)][2] = tx_frame)
        /\ pc = "check" => Len(log) = 2 * i
        /\ pc = "returned" => Len(log) = 2 * Len(channels)
        /\ pc = "raised" =>
              /\ Len(log) = 2 * i
              /\ error # "none"
              /\ \A k \in 1..(i - 1) :
                    send_request_check(log[2 * k][2], receiver_id, 35, 16) = "ok"

\* C9's case: the first of two replies failed and the second channel was never
\* asked
C9_Witness ==
    /\ api = "onlineDataQueryMulti"
    /\ pc = "raised"
    /\ Len(channels) = 2
    /\ i = 1
    /\ Len(log) = 2
    /\ error = ChecksumError

\* the reply read was cut before the end-of-body offset it declares
CutBeforeEndOfBody == kind.k = "trunc" /\ kind.n <= kind.m

\* C3 as stated: a reply cut before its declared end-of-body offset, down to the
\* empty frame, fails the checks with the length error
C3_TruncationIsLengthError ==
    (Checked /\ CutBeforeEndOfBody) => (pc = "raised" /\ error = LengthError)

\* the two bytes before the last byte of the frame are the CRC of the bytes
\* before them
TrailerMatches(rx) ==
    LET n == Len(rx)
    IN  /\ n >= 3
        /\ rx[n - 2] = calc_crc16(SubSeq(rx, 1, n - 3)) % 256
        /\ rx[n - 1] = calc_crc16(SubSeq(rx, 1, n - 3)) \div 256

\* C3 as amended: a reply cut before its declared end-of-body offset always
\* fails the checks: with the checksum error, or with the length error when the
\* bytes left happen to end in their own checksum
C3_TruncationRejected ==
    (Checked /\ CutBeforeEndOfBody) =>
        /\ pc = "raised"
        /\ error = (IF TrailerMatches(rx_frame) THEN LengthError ELSE ChecksumError)

\* C3's case: a reply cut before its end-of-body marker whose last bytes are their
\* own checksum, refused by the length check
C3_Witness ==
    /\ pc = "raised"
    /\ CutBeforeEndOfBody
    /\ kind.n = 16
    /\ TrailerMatches(rx_frame)
    /\ error = LengthError

\* the byte at 0-based offset at, -1 when the frame is shorter
ByteAt(rx, at) == IF at < Len(rx) THEN rx[at + 1] ELSE -1

\* the checks in the order C10 gives them; check n fails
CheckFails(n, rx) ==
    CASE n = 1 -> ~TrailerMatches(rx)
      [] n = 2 -> ByteAt(rx, 8 + (IF Len(rx) > 6 THEN rx[7] ELSE 0)) # 3
      [] n = 3 -> ByteAt(rx, 0) # 1
      [] n = 4 -> ByteAt(rx, 1) # 16
      [] n = 5 -> ByteAt(rx, 2) # 1 \/ ByteAt(rx, 3) # 240
      [] n = 6 -> ByteAt(rx, 4) # receiver_id \/ ByteAt(rx, 5) # 112
      [] n = 7 -> ByteAt(rx, 7) # 2
      [] n = 8 -> ByteAt(rx, 8) # command
      [] n = 9 -> ByteAt(rx, 9) # command_version

CheckMessage ==
    <<ChecksumError, LengthError, SOHError, VersionError, DestinationError,
      SourceError, STXError, CommandError, CommandVersionError>>

\* C10: the error reported is that of the first failing check in the order
\* checksum, end-of-body marker, start marker, version, destination, source,
\* start-of-body marker, command, command version; a value is decoded only from
\* a frame that passes them all
C10_FirstFailingCheckReported ==
    Checked =>
        LET failing == {n \in 1..9 : CheckFails(n, rx_frame)}
        IN  IF failing = {}
            THEN error \in {"none", "struct.error"}
            ELSE /\ pc = "raised"
                 /\ \E n \in failing :
                       /\ \A m \in failing : n <= m
                       /\ error = CheckMessage[n]

\* C10's case: a frame with a wrong start marker and a wrong checksum
C10_Witness ==
    /\ pc = "raised"
    /\ kind = Kind("faults", 1, 3)
    /\ CheckFails(1, rx_frame)
    /\ CheckFails(3, rx_frame)
    /\ error = ChecksumError

\* a read of the loop model is in progress / has returned
Reading == api = "readFromSerial" /\ pc = "reading"
ReadReturned == api = "readFromSerial" /\ pc = "returned"

\* what is returned is the first bytes that arrived, in arrival order, and it
\* is returned after 10 * timeout polls in a row that found no byte
ReadReturnsArrivalOrder ==
    ReadReturned =>
        /\ rx_frame = SubSeq(arrived, 1, Len(rx_frame))
        /\ timeout_count = 10 * timeout

\* a device that stops sending (here: after MaxBytes bytes) lets the read
\* return; checked under SpecReadFair
QuietDeviceReturns == Reading ~> ReadReturned

\* C11: with a finite timeout, readFromSerial returns once the configured
\* timeout has elapsed, whatever the device does: a read still in progress has
\* slept for less than the timeout (10 * timeout sleeps of 0.01 s, the time a
\* silent device is waited for), also when the device keeps sending bytes with
\* gaps shorter than the idle threshold.
C11_ReturnsOnceTimeoutElapsed ==
    Reading => slept < 10 * timeout

\* the bytes restart the count: a device that sent k bytes can hold the read
\* for (k + 1) idle gaps of just under the threshold, and no longer
ReadHeldByBytes ==
    Reading => slept <= (Len(data) + 1) * (10 * timeout - 1)

=============================================================================
